---- MODULE Spec2Model ----
(***************************************************************************)
(* Model of the compose-unpacker deploy / undeploy commands.               *)
(*                                                                         *)
(* Two versions of the deploy source are modelled side by side:            *)
(*   "deploy.go" -- src/deploy.go (registry login/logout in both commands, *)
(*                  SOPS decryption step),                                 *)
(*   "part_001"  -- src/unnamed/part_001 (registries handed to the compose *)
(*                  engine in single-engine mode, no decryption step).     *)
(* The undeploy commands come from src/undeploy.go.                        *)
(*                                                                         *)
(* Strings are sequences of byte codes, so that prefix tests, splitting,   *)
(* pattern matching and lexicographic sorting behave as in Go.             *)
(*                                                                         *)
(* Specifications:                                                         *)
(*   Spec         -- one run of one of the four commands,                  *)
(*   SpecRoots    -- findRootPaths on lists of file paths,                 *)
(*   SpecRegistry -- dockerLogin / dockerLogout on credential lists,       *)
(*   SpecSops     -- sopsDecrypt and the deploy call on checkouts with     *)
(*                   unreadable and missing directories,                   *)
(*   SpecPaths    -- the working directories of two successive requests,   *)
(*   SpecConcurrent -- two keep=false deploys of one project sharing the   *)
(*                   workspace, serialized or concurrent,                  *)
(*   SpecFrame    -- the workspace step on a disk holding the workspaces   *)
(*                   of several projects,                                  *)
(*   SpecAuth     -- getAuth on user names and passwords.                  *)
(* failedAt, logoutFailed, the recorded calls, `earlier` and `disturbed`   *)
(* are history variables: they record what happened and steer nothing.     *)
(***************************************************************************)
EXTENDS Integers, Sequences, FiniteSets, TLC

----------------------------------------------------------------------------
(* Bounds of the model                                                     *)

MaxFiles == 3
MaxRegistries == 2
MaxServices == 2
MaxSecrets == 2
MaxComposeFiles == 2
MaxCredLen == 2

----------------------------------------------------------------------------
(* Byte strings                                                            *)

\* "/"  ":"  "."  ".."
StrSlash == <<47>>
StrColon == <<58>>
StrDot == <<46>>
StrDotDot == <<46, 46>>
\* ".git"
StrDotGit == <<46, 103, 105, 116>>
\* "stacks"
StrStacks == <<115, 116, 97, 99, 107, 115>>

\* strings.HasPrefix
HasPrefix(s, prefix) ==
    /\ Len(prefix) <= Len(s)
    /\ SubSeq(s, 1, Len(prefix)) = prefix

\* strings.HasSuffix
HasSuffix(s, suffix) ==
    /\ Len(suffix) <= Len(s)
    /\ SubSeq(s, Len(s) - Len(suffix) + 1, Len(s)) = suffix

\* strings.TrimSuffix
TrimSuffix(s, suffix) ==
    IF HasSuffix(s, suffix) THEN SubSeq(s, 1, Len(s) - Len(suffix)) ELSE s

\* strings.LastIndex for a non-empty substr: 0-based index of the last
\* occurrence, -1 when there is none.
LastIndex(s, substr) ==
    LET hits == { i \in 0..(Len(s) - Len(substr)) :
                    SubSeq(s, i + 1, i + Len(substr)) = substr }
    IN  IF hits = {} THEN -1
        ELSE CHOOSE i \in hits : \A j \in hits : j <= i

\* strings.Index for a non-empty substr
Index(s, substr) ==
    LET hits == { i \in 0..(Len(s) - Len(substr)) :
                    SubSeq(s, i + 1, i + Len(substr)) = substr }
    IN  IF hits = {} THEN -1
        ELSE CHOOSE i \in hits : \A j \in hits : i <= j

\* strings.Split for a non-empty separator
RECURSIVE Split(_, _)
Split(s, sep) ==
    LET i == Index(s, sep)
    IN  IF i = -1 THEN <<s>>
        ELSE <<SubSeq(s, 1, i)>> \o Split(SubSeq(s, i + Len(sep) + 1, Len(s)), sep)

\* Go's string comparison a < b (bytewise lexicographic)
RECURSIVE StrLess(_, _)
StrLess(a, b) ==
    IF b = <<>> THEN FALSE
    ELSE IF a = <<>> THEN TRUE
    ELSE IF Head(a) # Head(b) THEN Head(a) < Head(b)
    ELSE StrLess(Tail(a), Tail(b))

RECURSIVE InsertSorted(_, _)
InsertSorted(sorted, s) ==
    IF sorted = <<>> THEN <<s>>
    ELSE IF StrLess(s, Head(sorted)) THEN <<s>> \o sorted
    ELSE <<Head(sorted)>> \o InsertSorted(Tail(sorted), s)

\* SortStrings leaving the list as it is.
SortStringsNoop(list) == list

\* sort.Strings: the ascending arrangement of the list
RECURSIVE SortStrings(_)
SortStrings(list) ==
    IF list = <<>> THEN <<>>
    ELSE InsertSorted(SortStrings(Tail(list)), Head(list))

\* strings.Join(elems, "/")
RECURSIVE JoinSlash(_)
JoinSlash(elems) ==
    IF elems = <<>> THEN <<>>
    ELSE IF Len(elems) = 1 THEN Head(elems)
    ELSE Head(elems) \o StrSlash \o JoinSlash(Tail(elems))

\* The component loop of path.Clean: out is the list of kept components.
RECURSIVE CleanComponents(_, _, _)
CleanComponents(comps, out, rooted) ==
    IF comps = <<>> THEN out
    ELSE LET c == Head(comps)
             rest == Tail(comps)
         IN  IF c = <<>> \/ c = StrDot THEN CleanComponents(rest, out, rooted)
             ELSE IF c = StrDotDot THEN
                 IF out # <<>> /\ out[Len(out)] # StrDotDot
                 THEN CleanComponents(rest, SubSeq(out, 1, Len(out) - 1), rooted)
                 ELSE IF rooted THEN CleanComponents(rest, out, rooted)
                 ELSE CleanComponents(rest, Append(out, c), rooted)
             ELSE CleanComponents(rest, Append(out, c), rooted)

\* path.Clean / filepath.Clean (Unix)
Clean(p) ==
    IF p = <<>> THEN StrDot
    ELSE LET rooted == Head(p) = Head(StrSlash)
             out == CleanComponents(Split(p, StrSlash), <<>>, rooted)
         IN  IF rooted THEN StrSlash \o JoinSlash(out)
             ELSE IF out = <<>> THEN StrDot
             ELSE JoinSlash(out)

\* filepath.Dir (Unix): everything up to and including the last separator,
\* cleaned.
Dir(p) == Clean(SubSeq(p, 1, LastIndex(p, StrSlash) + 1))

\* filepath.Base (Unix)
Base(p) ==
    IF p = <<>> THEN StrDot
    ELSE LET comps == SelectSeq(Split(p, StrSlash), LAMBDA c : c # <<>>)
         IN  IF comps = <<>> THEN StrSlash ELSE comps[Len(comps)]

\* path.Join / filepath.Join: empty elements are ignored, the rest joined
\* with "/" and cleaned; the result is empty when every element is empty.
Join(elems) ==
    LET nonEmpty == SelectSeq(elems, LAMBDA e : e # <<>>)
    IN  IF nonEmpty = <<>> THEN <<>> ELSE Clean(JoinSlash(nonEmpty))

\* makeWorkingDir without the "stacks" level.
makeWorkingDirFlat(target, stackName) == Join(<<target, stackName>>)

\* makeWorkingDir: filepath.Join(target, "stacks", stackName)
makeWorkingDir(target, stackName) == Join(<<target, StrStacks, stackName>>)

----------------------------------------------------------------------------
(* findRootPaths                                                           *)

\* The loop of findRootPaths: append every folder that does not start with
\* the most recently kept root.
RECURSIVE RootLoop(_, _, _)
RootLoop(folderPaths, i, rootPaths) ==
    IF i > Len(folderPaths) THEN rootPaths
    ELSE IF ~HasPrefix(folderPaths[i], rootPaths[Len(rootPaths)])
         THEN RootLoop(folderPaths, i + 1, Append(rootPaths, folderPaths[i]))
         ELSE RootLoop(folderPaths, i + 1, rootPaths)

FolderPaths(filePaths) ==
    [i \in 1..Len(filePaths) |-> Clean(Dir(filePaths[i]))]

\* findRootPaths answering "." for an empty list.
findRootPathsDot(filePaths) ==
    IF Len(filePaths) = 0 THEN <<StrDot>>
    ELSE LET folderPaths == SortStrings(FolderPaths(filePaths))
         IN  RootLoop(folderPaths, 1, <<folderPaths[1]>>)

findRootPaths(filePaths) ==
    IF Len(filePaths) = 0 THEN <<>>
    ELSE LET folderPaths == SortStrings(FolderPaths(filePaths))
         IN  RootLoop(folderPaths, 1, <<folderPaths[1]>>)

----------------------------------------------------------------------------
(* sopsDecrypt: file names, directory walk                                 *)

\* ".sops."
StrSopsMarker == <<46, 115, 111, 112, 115, 46>>
\* "*.sops.*"
SopsPattern == <<42>> \o StrSopsMarker \o <<42>>

\* Match that accepts every name.
MatchAny(pattern, name) == TRUE

\* filepath.Match for a pattern of literal bytes and '*' (any run of
\* non-separator bytes, the empty run included).
RECURSIVE Match(_, _)
Match(pattern, name) ==
    IF pattern = <<>> THEN name = <<>>
    ELSE IF Head(pattern) = 42
    THEN \E k \in 0..Len(name) :
            /\ \A j \in 1..k : name[j] # 47
            /\ Match(Tail(pattern), SubSeq(name, k + 1, Len(name)))
    ELSE /\ name # <<>>
         /\ Head(name) = Head(pattern)
         /\ Match(Tail(pattern), Tail(name))

\* strings.ReplaceAll: every non-overlapping occurrence, left to right.
RECURSIVE ReplaceAll(_, _, _)
ReplaceAll(s, old, new) ==
    LET i == Index(s, old)
    IN  IF i = -1 THEN s
        ELSE SubSeq(s, 1, i) \o new
             \o ReplaceAll(SubSeq(s, i + Len(old) + 1, Len(s)), old, new)

\* A directory entry of the file system.
Entry(path, isDir) == [path |-> path, isDir |-> isDir]

\* os.ReadDir order: the entries of a directory sorted by file name.
RECURSIVE SortedEntries(_)
SortedEntries(entries) ==
    IF entries = {} THEN <<>>
    ELSE LET first == CHOOSE e \in entries :
                         \A o \in entries : o = e \/ StrLess(e.path, o.path)
         IN  <<first>> \o SortedEntries(entries \ {first})

\* The entries directly inside directory dir.
Children(tree, dir) ==
    SortedEntries({ e \in tree : e.path # dir /\ Dir(e.path) = dir })

\* WalkFnError returning the walk error to filepath.WalkDir.
WalkFnPropagate(err) == err

\* Whether the callback of sopsDecrypt returns a non-nil error: it returns
\* nil after logging a walk error, and filepath.Match cannot fail on the
\* constant pattern.
WalkFnError(err) == FALSE

\* Whether the callback of sopsDecrypt appends the path to sopsFilePaths.
WalkFnAppend(isDir, name, err) ==
    ~err /\ ~isDir /\ Match(SopsPattern, name)

\* One call of the callback: fn(path, d, err).
Visit(acc, path, isDir, err) ==
    [walked |-> Append(acc.walked, path),
     found  |-> IF WalkFnAppend(isDir, Base(path), err)
                THEN Append(acc.found, path) ELSE acc.found,
     stop   |-> acc.stop \/ WalkFnError(err)]

\* walkDir of the standard library: the callback on the entry itself, then,
\* for a directory, os.ReadDir (a second callback carrying the error when it
\* fails) and the entries in file-name order; a non-nil callback result
\* ends the walk.
RECURSIVE WalkDirRec(_, _, _, _)
RECURSIVE WalkEntries(_, _, _, _)
WalkDirRec(tree, bad, entry, acc) ==
    LET self == Visit(acc, entry.path, entry.isDir, FALSE)
    IN  IF self.stop \/ ~entry.isDir THEN self
        ELSE IF entry.path \in bad
        THEN Visit(self, entry.path, entry.isDir, TRUE)
        ELSE WalkEntries(tree, bad, Children(tree, entry.path), self)

WalkEntries(tree, bad, entries, acc) ==
    IF entries = <<>> \/ acc.stop THEN acc
    ELSE WalkEntries(tree, bad, Tail(entries),
                     WalkDirRec(tree, bad, Head(entries), acc))

\* filepath.WalkDir(root, fn): os.Lstat of the root first; its result is
\* discarded by sopsDecrypt.
WalkDir(tree, bad, root, acc) ==
    LET here == { e \in tree : e.path = root }
        end  == IF here = {}
                THEN Visit(acc, root, FALSE, TRUE)
                ELSE WalkDirRec(tree, bad, CHOOSE e \in here : TRUE, acc)
    IN  [end EXCEPT !.stop = FALSE]

\* The range loop of sopsDecrypt over composeRootFolderPaths.
RECURSIVE WalkRoots(_, _, _, _)
WalkRoots(tree, bad, roots, acc) ==
    IF roots = <<>> THEN acc
    ELSE WalkRoots(tree, bad, Tail(roots), WalkDir(tree, bad, Head(roots), acc))

\* outputFileName := strings.ReplaceAll(sopsFileName, ".sops.", ".")
OutputFileName(sopsFileName) == ReplaceAll(sopsFileName, StrSopsMarker, StrDot)

----------------------------------------------------------------------------
(* Inputs                                                                  *)

\* "h/r.git" (well formed) and "r.git" (no path separator)
UrlWithSlash == <<104, 47, 114, 46, 103, 105, 116>>
UrlNoSlash == <<114, 46, 103, 105, 116>>
GitRepositoryInputs == {UrlWithSlash, UrlNoSlash}

\* "u:p:s"  "u:p"  "u:p:s:x"  "::"  ""
RegThree == <<117, 58, 112, 58, 115>>
RegTwo == <<117, 58, 112>>
RegFour == <<117, 58, 112, 58, 115, 58, 120>>
RegEmptyParts == <<58, 58>>
RegEmpty == <<>>
\* credentials of the requests of the command runs
RegistryInputs == {RegThree, RegFour}
\* credentials given to dockerLogin / dockerLogout on their own
RegistryInputsFull == {RegThree, RegTwo, RegFour, RegEmptyParts, RegEmpty}

\* cmd.Destination "/d" and cmd.ProjectName "p"
DestinationInputs == {<<47, 100>>}
ProjectNameInputs == {<<112>>}

\* Names inside the repository: the compose file "c", the directories "s",
\* "m" and "k.sops.d", the file "a.secret.y".
NameCompose == <<99>>
NameSub == <<115>>
NameMissing == <<109>>
NameMarkedDir == <<107>> \o StrSopsMarker \o <<100>>
NameOther == <<97, 46, 115, 101, 99, 114, 101, 116, 46, 121>>
\* "a.sops.y", "b.sops.y", ...
SecretName(i) == <<96 + i>> \o StrSopsMarker \o <<121>>

\* cmd.ComposeRelativeFilePaths: "c", "s/c" and "m/c"
RelTop == NameCompose
RelSub == NameSub \o StrSlash \o NameCompose
RelMissing == NameMissing \o StrSlash \o NameCompose
ComposeInputs == {<<RelTop, RelSub>>}

\* The content of a checkout at root holding n SOPS files: the first one
\* next to the compose file, the others in the directory "s"; the directory
\* "m" does not exist.
RepoTree(root, n) ==
    LET At(name) == root \o StrSlash \o name
        sub == At(NameSub)
    IN  { Entry(root, TRUE), Entry(At(NameCompose), FALSE),
          Entry(At(NameOther), FALSE), Entry(At(NameMarkedDir), TRUE),
          Entry(sub, TRUE), Entry(sub \o StrSlash \o NameCompose, FALSE) }
        \cup { Entry((IF i = 1 THEN root ELSE sub) \o StrSlash
                      \o SecretName(i), FALSE) : i \in 1..n }

SeqsUpTo(S, n) == UNION { [1..k -> S] : k \in 0..n }

Services == 1..MaxServices

\* The identifiers of a query result as a list, in ascending order.
RECURSIVE ServiceList(_)
ServiceList(ids) ==
    IF ids = {} THEN <<>>
    ELSE LET least == CHOOSE m \in ids : \A n \in ids : m <= n
         IN  <<least>> \o ServiceList(ids \ {least})

Builds == {"deploy.go", "part_001"}
DeployCmds == {"DeployCommand", "SwarmDeployCommand"}
UndeployCmds == {"UndeployCommand", "SwarmUndeployCommand"}

\* Error values a Run can return.  "stderr" is errors.New(stderr.String())
\* as built by runCommandAndCaptureStdErr.
ErrNil == "nil"
ErrDeployComposeFailure == "errDeployComposeFailure"
ErrStderr == "stderr"
\* checkRunningService and deploySwarmStack are defined outside the modelled
\* files; Run passes their error on unchanged, whatever value it is.
CalleeErrors == {ErrDeployComposeFailure, ErrStderr}

----------------------------------------------------------------------------
(* State                                                                   *)

VARIABLES
    build,              \* which deploy source the command comes from
    cmd,                \* the command being run
    GitRepository,      \* cmd.GitRepository
    Keep,               \* cmd.Keep
    ForceRecreateStack, \* cmd.ForceRecreateStack
    Prune,              \* cmd.Prune
    Registry,           \* cmd.Registry
    repoSecrets,        \* number of *.sops.* files in the repository content
    Destination,        \* cmd.Destination
    ProjectName,        \* cmd.ProjectName
    ComposeRelativeFilePaths, \* cmd.ComposeRelativeFilePaths
    unreadable,         \* directories whose os.ReadDir fails
    pc,                 \* position inside Run
    result,             \* error value returned by Run ("none" while running)
    deferred,           \* defer dockerLogout(cmd.Registry) is registered
    loginIdx,           \* range index of dockerLogin
    logoutIdx,          \* range index of dockerLogout
    loginCalls,         \* registry indices for which "docker login" was run
    logoutCalls,        \* registry indices for which "docker logout" was run
    loggedIn,           \* servers with a stored login in the docker config
    repositoryName,     \* local of Run
    ws,                 \* the directory at mountPath
    ws0,                \* the directory at mountPath when Run started
    runningServices,    \* local of SwarmDeployCommand.Run
    forceUpdate,        \* local of SwarmDeployCommand.Run
    pending,            \* updatedServiceIDs still to be ranged over
    postServices,       \* result of the post-deploy checkRunningService
    forced,             \* services for which updateService was called
    updateFailed,       \* services whose updateService call failed
    walked,             \* paths handed to the filepath.WalkDir callback
    sopsFilePaths,      \* local of sopsDecrypt
    sopsIdx,            \* range index of the decrypt loop
    decryptCalls,       \* the decrypt-tool invocations, in order
    clonedTo,           \* target paths of the git.PlainCloneContext calls
    deployCalls,        \* arguments of the deploy-engine calls
    failedAt,           \* position of the failure that made Run return
    logoutFailed,       \* registry indices whose "docker logout" failed
    steps,              \* the external steps performed so far, in order
    filePaths,          \* argument of findRootPaths
    rootPaths,          \* result of findRootPaths
    earlier,            \* the request handled before this one and its paths
    mode,               \* how the caller schedules two invocations of Run
    pcs,                \* position of each of the two invocations inside Run
    disturbed,          \* invocations whose clone another invocation modified
    dirs,               \* the directories that exist on disk
    dirs0,              \* the directories that existed when Run was called
    User,               \* cmd.User
    Password,           \* cmd.Password
    auth                \* the value getAuth returned

request == <<build, cmd, GitRepository, Keep, ForceRecreateStack, Prune,
             Registry,
             repoSecrets, Destination, ProjectName, ComposeRelativeFilePaths,
             unreadable, ws0>>
registryState == <<deferred, loginIdx, logoutIdx, loginCalls, logoutCalls,
                   loggedIn>>
swarmState == <<runningServices, forceUpdate, pending, postServices, forced,
                updateFailed>>
sopsState == <<walked, sopsFilePaths, sopsIdx, decryptCalls>>
callState == <<clonedTo, deployCalls>>
rootsState == <<filePaths, rootPaths>>
concState == <<mode, pcs, disturbed>>
fsState == <<dirs, dirs0>>
authState == <<User, Password, auth>>
vars == <<request, pc, result, registryState, repositoryName, ws,
          swarmState, sopsState, steps, rootsState, callState, failedAt,
          logoutFailed, earlier, concState, fsState, authState>>

\* mountPathOf with the undeploy commands looking for the working
\* directory directly below the destination.
mountPathOfUndeployFlat(c, dest, project) ==
    CASE c = "DeployCommand" -> makeWorkingDir(dest, project)
      [] c = "SwarmDeployCommand" -> makeWorkingDir(dest, project)
      [] c = "UndeployCommand" -> Join(<<dest, project>>)
      [] c = "SwarmUndeployCommand" -> Join(<<dest, project>>)

\* mountPath := makeWorkingDir(cmd.Destination, cmd.ProjectName) as each
\* command computes it: DeployCommand.Run (deploy.go line 61),
\* SwarmDeployCommand.Run (deploy.go line 191), UndeployCommand.Run
\* (undeploy.go line 28), SwarmUndeployCommand.Run (undeploy.go line 73).
mountPathOf(c, dest, project) ==
    CASE c = "DeployCommand" -> makeWorkingDir(dest, project)
      [] c = "SwarmDeployCommand" -> makeWorkingDir(dest, project)
      [] c = "UndeployCommand" -> makeWorkingDir(dest, project)
      [] c = "SwarmUndeployCommand" -> makeWorkingDir(dest, project)

\* mountPath of the command being run
mountPath == mountPathOf(cmd, Destination, ProjectName)
\* clonePath := path.Join(mountPath, repositoryName)
clonePath == Join(<<mountPath, repositoryName>>)
\* composeFilePaths[i] = path.Join(clonePath, cmd.ComposeRelativeFilePaths[i])
composeFilePaths ==
    [i \in 1..Len(ComposeRelativeFilePaths) |->
        Join(<<clonePath, ComposeRelativeFilePaths[i]>>)]
\* The files below clonePath.
Tree == IF ws.repo = "none" THEN {} ELSE RepoTree(clonePath, repoSecrets)

NoDir == [exists |-> FALSE, repo |-> "none", plain |-> {}]
OldCheckout == [exists |-> TRUE, repo |-> "old", plain |-> {}]
NewCheckout == [exists |-> TRUE, repo |-> "new", plain |-> {}]

\* The two invocations of DeployCommand.Run that share a workspace.
Invocations == {"p1", "p2"}

\* No second invocation takes part in the run.
IdleConc ==
    /\ mode = "single"
    /\ pcs = [p \in Invocations |-> "idle"]
    /\ disturbed = {}

\* The directory tree is not tracked in the run.
IdleFs ==
    /\ dirs = {}
    /\ dirs0 = {}

\* nil *http.BasicAuth
NoAuth == <<>>

\* The run is given no git credentials and getAuth has not been called.
IdleAuth ==
    /\ User = <<>>
    /\ Password = <<>>
    /\ auth = NoAuth

IdleRun ==
    /\ pc = "start"
    /\ result = "none"
    /\ deferred = FALSE
    /\ loginIdx = 1
    /\ logoutIdx = 1
    /\ loginCalls = <<>>
    /\ logoutCalls = <<>>
    /\ loggedIn = {}
    /\ repositoryName = <<>>
    /\ runningServices = {}
    /\ forceUpdate = FALSE
    /\ pending = <<>>
    /\ postServices = {}
    /\ forced = {}
    /\ updateFailed = {}
    /\ walked = <<>>
    /\ sopsFilePaths = <<>>
    /\ sopsIdx = 1
    /\ decryptCalls = <<>>
    /\ clonedTo = <<>>
    /\ deployCalls = <<>>
    /\ failedAt = "none"
    /\ logoutFailed = {}
    /\ earlier = <<>>
    /\ steps = <<>>

Init ==
    /\ cmd \in DeployCmds \cup UndeployCmds
    /\ build \in (IF cmd \in DeployCmds THEN Builds ELSE {"undeploy.go"})
    /\ GitRepository \in GitRepositoryInputs
    /\ Keep \in BOOLEAN
    /\ ForceRecreateStack \in (IF cmd \in DeployCmds THEN BOOLEAN ELSE {FALSE})
    /\ Prune \in (IF cmd = "DeployCommand" THEN BOOLEAN ELSE {FALSE})
    /\ Registry \in (IF cmd \in DeployCmds
                     THEN SeqsUpTo(RegistryInputs, MaxRegistries) ELSE {<<>>})
    /\ repoSecrets \in (IF cmd \in DeployCmds THEN {0, MaxSecrets} ELSE {0})
    /\ Destination \in DestinationInputs
    /\ ProjectName \in ProjectNameInputs
    /\ ComposeRelativeFilePaths \in ComposeInputs
    /\ unreadable = {}
    /\ ws0 \in {NoDir, OldCheckout}
    /\ ws = ws0
    /\ IdleRun
    /\ IdleConc
    /\ IdleFs
    /\ IdleAuth
    /\ filePaths = <<>>
    /\ rootPaths = <<>>

----------------------------------------------------------------------------
(* Control flow of the Run methods                                         *)

\* Whether the command calls dockerLogin / dockerLogout itself.
HasLogin(b, c) ==
    /\ c \in DeployCmds
    /\ ~(b = "part_001" /\ c = "DeployCommand")

\* The position that follows `at` when the step at `at` succeeded, in the
\* statement order of the Run methods.
Succ(b, c, at) ==
    CASE at = "start" ->
            IF HasLogin(b, c) THEN "login"
            ELSE IF c = "SwarmUndeployCommand" THEN "remove"
            ELSE "checkURL"
      [] at = "login" -> "checkURL"
      [] at = "checkURL" ->
            IF c = "SwarmDeployCommand" THEN "preQuery"
            ELSE IF c = "DeployCommand" THEN "prep"
            ELSE "remove"
      [] at = "preQuery" -> "prep"
      [] at = "prep" -> "mkdir"
      [] at = "mkdir" -> "clone"
      [] at = "clone" ->
            IF b = "part_001" THEN "deploy"
            ELSE IF c = "DeployCommand" THEN "newDeployer"
            ELSE "sops"
      [] at = "newDeployer" -> "sops"
      [] at = "sops" -> "decrypt"
      [] at = "decrypt" -> "deploy"
      [] at = "deploy" -> "postQuery"
      [] at = "postQuery" -> "update"
      [] at = "remove" -> "cleanup"

\* strings.TrimSuffix(cmd.GitRepository[i+1:], ".git") with
\* i := strings.LastIndex(cmd.GitRepository, "/")
RepositoryNameOf(url) ==
    TrimSuffix(SubSeq(url, LastIndex(url, StrSlash) + 2, Len(url)), StrDotGit)

\* Return without the deferred dockerLogout.
ReturnNoLogout(err) ==
    /\ result' = err
    /\ pc' = "done"

\* A return statement of Run: the deferred dockerLogout, when registered,
\* runs before control goes back to the caller.
Return(err) ==
    /\ result' = err
    /\ pc' = IF deferred THEN "logout" ELSE "done"

\* Fail that logs the error and goes on with the next statement.
FailContinue(at, err) ==
    /\ failedAt' = at
    /\ result' = result
    /\ pc' = Succ(build, cmd, at)

\* A return statement on the error branch of the step at position `at`.
Fail(at, err) ==
    /\ Return(err)
    /\ failedAt' = at

\* Malformed with the test weakened to "fewer than three segments".
MalformedLoose(registry) == Len(Split(registry, StrColon)) < 3

\* len(strings.Split(registry, ":")) != 3
Malformed(registry) == Len(Split(registry, StrColon)) # 3

\* credentials[2]
ServerOf(registry) == Split(registry, StrColon)[3]

\* IsCreateRequest ignoring the keep flag.
AlwaysCreate(keep) == TRUE

\* if !cmd.Keep { //stack create request
IsCreateRequest(keep) == ~keep

\* The forceUpdate decision of SwarmDeployCommand.Run.
ForceUpdateDecision(b, forceRecreate, running) ==
    IF b = "deploy.go" THEN running # {}
    ELSE forceRecreate /\ running # {}

\* ShouldForce without the membership test.
ShouldForceAll(sid, running) == TRUE

\* _, ok := runningServices[updatedServiceID]
ShouldForce(sid, running) == sid \in running

----------------------------------------------------------------------------
(* Steps                                                                   *)

\* Entry of Run; deploy.go registers the deferred logout before logging in.
Begin ==
    /\ pc = "start"
    /\ pc' = Succ(build, cmd, "start")
    /\ deferred' = (build = "deploy.go")
    /\ UNCHANGED <<request, result, loginIdx, logoutIdx, loginCalls,
                   logoutCalls, loggedIn, repositoryName, ws, swarmState,
                   sopsState, steps, rootsState, callState, failedAt,
                   logoutFailed, earlier, concState, fsState, authState>>

\* DockerLoginIter returning the error of a failed "docker login".
DockerLoginIterFatal ==
    /\ pc = "login"
    /\ loginIdx <= Len(Registry)
    /\ loginIdx' = loginIdx + 1
    /\ IF Malformed(Registry[loginIdx])
       THEN UNCHANGED <<loginCalls, loggedIn, steps, pc, result, failedAt>>
       ELSE /\ loginCalls' = Append(loginCalls, loginIdx)
            /\ steps' = Append(steps, "login")
            /\ \/ /\ loggedIn' = loggedIn \cup {ServerOf(Registry[loginIdx])}
                  /\ UNCHANGED <<pc, result, failedAt>>
               \/ /\ Fail("login", ErrStderr)
                  /\ UNCHANGED loggedIn
    /\ UNCHANGED <<request, deferred, logoutIdx, logoutCalls, repositoryName,
                   ws, swarmState, sopsState, rootsState, callState,
                   logoutFailed, earlier, concState, fsState, authState>>

\* One iteration of the range loop of dockerLogin.
DockerLoginIter ==
    /\ pc = "login"
    /\ loginIdx <= Len(Registry)
    /\ loginIdx' = loginIdx + 1
    /\ IF Malformed(Registry[loginIdx])
       THEN UNCHANGED <<loginCalls, loggedIn, steps>>
       ELSE \E ok \in BOOLEAN :
              /\ loginCalls' = Append(loginCalls, loginIdx)
              /\ steps' = Append(steps, "login")
              /\ loggedIn' = IF ok
                             THEN loggedIn \cup {ServerOf(Registry[loginIdx])}
                             ELSE loggedIn
    /\ UNCHANGED <<request, pc, result, deferred, logoutIdx, logoutCalls,
                   repositoryName, ws, swarmState, sopsState, rootsState,
                   callState, failedAt, logoutFailed, earlier, concState, fsState, authState>>

\* dockerLogin returns nil; part_001 registers the deferred logout here.
DockerLoginReturn ==
    /\ pc = "login"
    /\ loginIdx > Len(Registry)
    /\ pc' = Succ(build, cmd, "login")
    /\ deferred' = TRUE
    /\ UNCHANGED <<request, result, loginIdx, logoutIdx, loginCalls,
                   logoutCalls, loggedIn, repositoryName, ws, swarmState,
                   sopsState, steps, rootsState, callState, failedAt,
                   logoutFailed, earlier, concState, fsState, authState>>

\* strings.LastIndex(cmd.GitRepository, "/") and the repository name.
CheckURL ==
    /\ pc = "checkURL"
    /\ LET i == LastIndex(GitRepository, StrSlash)
       IN  IF i = -1
           THEN /\ Fail("checkURL", ErrDeployComposeFailure)
                /\ UNCHANGED repositoryName
           ELSE /\ pc' = Succ(build, cmd, "checkURL")
                /\ repositoryName' =
                      IF cmd \in DeployCmds
                      THEN RepositoryNameOf(GitRepository)
                      ELSE repositoryName
                /\ UNCHANGED <<result, failedAt>>
    /\ UNCHANGED <<request, registryState, ws, swarmState, sopsState, steps,
                   rootsState, callState, logoutFailed, earlier, concState, fsState, authState>>

\* The pre-deploy checkRunningService and the forceUpdate decision.
PreQuery ==
    /\ pc = "preQuery"
    /\ steps' = Append(steps, "query")
    /\ \/ /\ \E e \in CalleeErrors : Fail("preQuery", e)
          /\ UNCHANGED <<runningServices, forceUpdate>>
       \/ \E ids \in SUBSET Services :
              /\ runningServices' = ids
              /\ forceUpdate' = ForceUpdateDecision(build, ForceRecreateStack, ids)
              /\ pc' = Succ(build, cmd, "preQuery")
              /\ UNCHANGED <<result, failedAt>>
    /\ UNCHANGED <<request, registryState, repositoryName, ws, pending,
                   postServices, forced, updateFailed, sopsState, rootsState,
                   callState, logoutFailed, earlier, concState, fsState, authState>>

\* if !cmd.Keep: os.Stat and, when the directory exists, os.RemoveAll.
Prep ==
    /\ pc = "prep"
    /\ IF ~IsCreateRequest(Keep)
       THEN /\ pc' = Succ(build, cmd, "clone")
            /\ UNCHANGED <<result, failedAt, ws, steps>>
       ELSE IF ws.exists
       THEN /\ steps' = Append(steps, "remove")
            /\ \/ /\ ws' = NoDir
                  /\ pc' = Succ(build, cmd, "prep")
                  /\ UNCHANGED <<result, failedAt>>
               \/ /\ Fail("prep", ErrDeployComposeFailure)
                  /\ UNCHANGED ws
       ELSE /\ pc' = Succ(build, cmd, "prep")
            /\ UNCHANGED <<result, failedAt, ws, steps>>
    /\ UNCHANGED <<request, registryState, repositoryName, swarmState,
                   sopsState, rootsState, callState, logoutFailed, earlier, concState, fsState, authState>>

\* os.MkdirAll(mountPath, 0755)
MkdirAll ==
    /\ pc = "mkdir"
    /\ steps' = Append(steps, "mkdir")
    /\ \/ /\ ws' = [ws EXCEPT !.exists = TRUE]
          /\ pc' = Succ(build, cmd, "mkdir")
          /\ UNCHANGED <<result, failedAt>>
       \/ /\ Fail("mkdir", ErrDeployComposeFailure)
          /\ UNCHANGED ws
    /\ UNCHANGED <<request, registryState, repositoryName, swarmState,
                   sopsState, rootsState, callState, logoutFailed, earlier, concState, fsState, authState>>

\* git.PlainCloneContext into clonePath
Clone ==
    /\ pc = "clone"
    /\ steps' = Append(steps, "clone")
    /\ clonedTo' = Append(clonedTo, clonePath)
    /\ \/ /\ ws' = NewCheckout
          /\ pc' = Succ(build, cmd, "clone")
          /\ UNCHANGED <<result, failedAt>>
       \/ /\ Fail("clone", ErrDeployComposeFailure)
          /\ UNCHANGED ws
    /\ UNCHANGED <<request, registryState, repositoryName, swarmState,
                   sopsState, rootsState, deployCalls, logoutFailed, earlier, concState, fsState, authState>>

\* compose.NewComposeDeployer(BIN_PATH, PORTAINER_DOCKER_CONFIG_PATH)
NewDeployer ==
    /\ pc = "newDeployer"
    /\ \/ /\ pc' = Succ(build, cmd, "newDeployer")
          /\ UNCHANGED <<result, failedAt>>
       \/ Fail("newDeployer", ErrDeployComposeFailure)
    /\ UNCHANGED <<request, registryState, repositoryName, ws, swarmState,
                   sopsState, steps, rootsState, callState, logoutFailed,
                   earlier, concState, fsState, authState>>

\* sopsDecrypt: the directory walk that collects sopsFilePaths.
SopsWalk ==
    /\ pc = "sops"
    /\ steps' = Append(steps, "sops")
    /\ LET w == WalkRoots(Tree, unreadable, findRootPaths(composeFilePaths),
                          [walked |-> <<>>, found |-> <<>>, stop |-> FALSE])
       IN  /\ walked' = w.walked
           /\ sopsFilePaths' = w.found
    /\ sopsIdx' = 1
    /\ pc' = Succ(build, cmd, "sops")
    /\ UNCHANGED <<request, result, registryState, repositoryName, ws,
                   swarmState, decryptCalls, rootsState, callState, failedAt,
                   logoutFailed, earlier, concState, fsState, authState>>

\* SopsDecryptIter that goes on with the next file after a failure.
SopsDecryptIterContinue ==
    /\ pc = "decrypt"
    /\ sopsIdx <= Len(sopsFilePaths)
    /\ LET sopsFileFolderPath == Dir(sopsFilePaths[sopsIdx])
           sopsFileName == Base(sopsFilePaths[sopsIdx])
           outputFileName == OutputFileName(sopsFileName)
           call(ok) == [dir    |-> sopsFileFolderPath,
                        output |-> outputFileName,
                        input  |-> sopsFileName,
                        ok     |-> ok]
       IN  \/ /\ decryptCalls' = Append(decryptCalls, call(TRUE))
              /\ ws' = [ws EXCEPT !.plain =
                           @ \cup {Join(<<sopsFileFolderPath,
                                          outputFileName>>)}]
           \/ /\ decryptCalls' = Append(decryptCalls, call(FALSE))
              /\ UNCHANGED ws
    /\ sopsIdx' = sopsIdx + 1
    /\ UNCHANGED <<request, pc, result, failedAt, registryState,
                   repositoryName, swarmState, walked, sopsFilePaths, steps,
                   rootsState, callState, logoutFailed, earlier, concState, fsState, authState>>

\* sopsDecrypt: one iteration of the decrypt loop.
SopsDecryptIter ==
    /\ pc = "decrypt"
    /\ sopsIdx <= Len(sopsFilePaths)
    /\ LET sopsFileFolderPath == Dir(sopsFilePaths[sopsIdx])
           sopsFileName == Base(sopsFilePaths[sopsIdx])
           outputFileName == OutputFileName(sopsFileName)
           call(ok) == [dir    |-> sopsFileFolderPath,
                        output |-> outputFileName,
                        input  |-> sopsFileName,
                        ok     |-> ok]
       IN  \/ /\ decryptCalls' = Append(decryptCalls, call(TRUE))
              /\ ws' = [ws EXCEPT !.plain =
                           @ \cup {Join(<<sopsFileFolderPath,
                                          outputFileName>>)}]
              /\ sopsIdx' = sopsIdx + 1
              /\ UNCHANGED <<pc, result, failedAt>>
           \/ /\ decryptCalls' = Append(decryptCalls, call(FALSE))
              /\ Fail("decrypt", ErrDeployComposeFailure)
              /\ UNCHANGED <<ws, sopsIdx>>
    /\ UNCHANGED <<request, registryState, repositoryName, swarmState, walked,
                   sopsFilePaths, steps, rootsState, callState, logoutFailed,
                   earlier, concState, fsState, authState>>

\* sopsDecrypt returns nil.
SopsReturn ==
    /\ pc = "decrypt"
    /\ sopsIdx > Len(sopsFilePaths)
    /\ pc' = Succ(build, cmd, "decrypt")
    /\ UNCHANGED <<request, result, registryState, repositoryName, ws,
                   swarmState, sopsState, steps, rootsState, callState,
                   failedAt, logoutFailed, earlier, concState, fsState, authState>>

\* The ForceRecreate and RemoveOrphans fields of libstack.DeployOptions:
\* deploy.go writes ForceRecreate: true and leaves RemoveOrphans at its zero
\* value, part_001 passes cmd.ForceRecreateStack and cmd.Prune.
EngineForceRecreate(b, forceRecreate) ==
    IF b = "deploy.go" THEN TRUE ELSE forceRecreate
EngineRemoveOrphans(b, prune) ==
    IF b = "deploy.go" THEN FALSE ELSE prune

\* deployer.Deploy (single engine) or deploySwarmStack (clustered).
DeployEngine ==
    /\ pc = "deploy"
    /\ steps' = Append(steps, "deploy")
    /\ deployCalls' =
          Append(deployCalls,
                 IF cmd = "DeployCommand"
                 THEN [paths         |-> composeFilePaths,
                       workingDir    |-> clonePath,
                       projectName   |-> ProjectName,
                       forceRecreate |->
                           EngineForceRecreate(build, ForceRecreateStack),
                       removeOrphans |-> EngineRemoveOrphans(build, Prune)]
                 ELSE [paths       |-> ComposeRelativeFilePaths,
                       workingDir  |-> clonePath,
                       projectName |-> ProjectName])
    /\ IF cmd = "DeployCommand"
       THEN \/ Return(ErrNil) /\ UNCHANGED failedAt
            \/ Fail("deploy", ErrDeployComposeFailure)
       ELSE \/ IF forceUpdate
               THEN /\ pc' = Succ(build, cmd, "deploy")
                    /\ UNCHANGED <<result, failedAt>>
               ELSE Return(ErrNil) /\ UNCHANGED failedAt
            \/ \E e \in CalleeErrors : Fail("deploy", e)
    /\ UNCHANGED <<request, registryState, repositoryName, ws, swarmState,
                   sopsState, rootsState, clonedTo, logoutFailed, earlier, concState, fsState, authState>>

\* The post-deploy checkRunningService.
PostQuery ==
    /\ pc = "postQuery"
    /\ steps' = Append(steps, "reconcile")
    /\ \/ /\ \E e \in CalleeErrors : Fail("postQuery", e)
          /\ UNCHANGED <<postServices, pending>>
       \/ \E ids \in SUBSET Services :
              /\ postServices' = ids
              /\ pending' = ServiceList(ids)
              /\ pc' = Succ(build, cmd, "postQuery")
              /\ UNCHANGED <<result, failedAt>>
    /\ UNCHANGED <<request, registryState, repositoryName, ws,
                   runningServices, forceUpdate, forced, updateFailed,
                   sopsState, rootsState, callState, logoutFailed, earlier, concState, fsState, authState>>

\* One iteration of the range loop over updatedServiceIDs.
UpdateIter ==
    /\ pc = "update"
    /\ pending # <<>>
    /\ pending' = Tail(pending)
    /\ LET sid == Head(pending)
       IN  IF ShouldForce(sid, runningServices)
           THEN /\ forced' = forced \cup {sid}
                /\ \E ok \in BOOLEAN :
                      updateFailed' = IF ok THEN updateFailed
                                      ELSE updateFailed \cup {sid}
           ELSE UNCHANGED <<forced, updateFailed>>
    /\ UNCHANGED <<request, pc, result, registryState, repositoryName, ws,
                   runningServices, forceUpdate, postServices, sopsState,
                   steps, rootsState, callState, failedAt, logoutFailed,
                   earlier, concState, fsState, authState>>

\* End of the update loop: return nil.
UpdateReturn ==
    /\ pc = "update"
    /\ pending = <<>>
    /\ Return(ErrNil)
    /\ UNCHANGED <<request, registryState, repositoryName, ws, swarmState,
                   sopsState, steps, rootsState, callState, failedAt,
                   logoutFailed, earlier, concState, fsState, authState>>

\* One iteration of the range loop of dockerLogout.
DockerLogoutIter ==
    /\ pc = "logout"
    /\ logoutIdx <= Len(Registry)
    /\ logoutIdx' = logoutIdx + 1
    /\ IF Malformed(Registry[logoutIdx])
       THEN UNCHANGED <<logoutCalls, loggedIn, steps, logoutFailed, earlier, concState, fsState, authState>>
       ELSE \E ok \in BOOLEAN :
              /\ logoutCalls' = Append(logoutCalls, logoutIdx)
              /\ steps' = Append(steps, "logout")
              /\ loggedIn' = IF ok
                             THEN loggedIn \ {ServerOf(Registry[logoutIdx])}
                             ELSE loggedIn
              /\ logoutFailed' = IF ok THEN logoutFailed
                                 ELSE logoutFailed \cup {logoutIdx}
    /\ UNCHANGED <<request, pc, result, deferred, loginIdx, loginCalls,
                   repositoryName, ws, swarmState, sopsState, rootsState,
                   callState, failedAt, earlier, concState, fsState, authState>>

\* dockerLogout returns; Run hands its result to the caller.
DockerLogoutReturn ==
    /\ pc = "logout"
    /\ logoutIdx > Len(Registry)
    /\ pc' = "done"
    /\ UNCHANGED <<request, result, registryState, repositoryName, ws,
                   swarmState, sopsState, steps, rootsState, callState,
                   failedAt, logoutFailed, earlier, concState, fsState, authState>>

\* StackRemove that goes on to the workspace cleanup after a failure.
StackRemoveThenCleanup ==
    /\ pc = "remove"
    /\ steps' = Append(steps, "stackrm")
    /\ pc' = Succ(build, cmd, "remove")
    /\ \/ UNCHANGED failedAt
       \/ failedAt' = "remove"
    /\ UNCHANGED <<request, result, registryState, repositoryName, ws,
                   swarmState, sopsState, rootsState, callState, logoutFailed,
                   earlier, concState, fsState, authState>>

\* deployer.Remove (single engine) or "docker stack rm" (clustered).
StackRemove ==
    /\ pc = "remove"
    /\ steps' = Append(steps, "stackrm")
    /\ \/ /\ pc' = Succ(build, cmd, "remove")
          /\ UNCHANGED <<result, failedAt>>
       \/ Fail("remove", IF cmd = "UndeployCommand"
                         THEN ErrDeployComposeFailure ELSE ErrStderr)
    /\ UNCHANGED <<request, registryState, repositoryName, ws, swarmState,
                   sopsState, rootsState, callState, logoutFailed, earlier, concState, fsState, authState>>

\* Cleanup that reports a failed os.RemoveAll to the caller.
CleanupFatal ==
    /\ pc = "cleanup"
    /\ IF IsCreateRequest(Keep)
       THEN /\ steps' = Append(steps, "cleanup")
            /\ \/ ws' = NoDir /\ Return(ErrNil) /\ UNCHANGED failedAt
               \/ ws' = ws /\ Fail("cleanup", ErrDeployComposeFailure)
       ELSE UNCHANGED <<ws, steps, failedAt>> /\ Return(ErrNil)
    /\ UNCHANGED <<request, registryState, repositoryName, swarmState,
                   sopsState, rootsState, callState, logoutFailed, earlier, concState, fsState, authState>>

\* if !cmd.Keep { os.RemoveAll(mountPath) }; return nil
Cleanup ==
    /\ pc = "cleanup"
    /\ IF IsCreateRequest(Keep)
       THEN /\ steps' = Append(steps, "cleanup")
            /\ \/ ws' = NoDir
               \/ ws' = ws
       ELSE UNCHANGED <<ws, steps>>
    /\ Return(ErrNil)
    /\ UNCHANGED <<request, registryState, repositoryName, swarmState,
                   sopsState, rootsState, callState, failedAt, logoutFailed,
                   earlier, concState, fsState, authState>>

Next ==
    \/ Begin
    \/ DockerLoginIter
    \/ DockerLoginReturn
    \/ CheckURL
    \/ PreQuery
    \/ Prep
    \/ MkdirAll
    \/ Clone
    \/ NewDeployer
    \/ SopsWalk
    \/ SopsDecryptIter
    \/ SopsReturn
    \/ DeployEngine
    \/ PostQuery
    \/ UpdateIter
    \/ UpdateReturn
    \/ DockerLogoutIter
    \/ DockerLogoutReturn
    \/ StackRemove
    \/ Cleanup

Spec == Init /\ [][Next]_vars

----------------------------------------------------------------------------
(* findRootPaths applied to bounded lists of file paths                    *)

\* directory names "a", "b", "x", "y", "xy"; file name "f"
SegA == <<97>>
SegB == <<98>>
SegX == <<120>>
SegY == <<121>>
SegXY == <<120, 121>>
FileName == <<102>>
PathOf(segs) == StrSlash \o JoinSlash(Append(segs, FileName))
\* "/f", "/a/f", "/a/x/f", "/a/x/y/f", "/a/xy/f", "/b/f"
FilePathInputs ==
    { PathOf(<<>>), PathOf(<<SegA>>), PathOf(<<SegA, SegX>>),
      PathOf(<<SegA, SegX, SegY>>), PathOf(<<SegA, SegXY>>), PathOf(<<SegB>>) }

\* A fixed request, for the specifications that exercise one function.
FixedRequest ==
    /\ cmd = "DeployCommand"
    /\ build = "deploy.go"
    /\ GitRepository = UrlWithSlash
    /\ Keep = FALSE
    /\ ForceRecreateStack = FALSE
    /\ Prune = FALSE
    /\ repoSecrets = 0
    /\ Destination \in DestinationInputs
    /\ ProjectName \in ProjectNameInputs
    /\ ComposeRelativeFilePaths \in ComposeInputs
    /\ unreadable = {}
    /\ ws0 = NoDir
    /\ ws = ws0
    /\ result = "none"
    /\ deferred = FALSE
    /\ loginIdx = 1
    /\ logoutIdx = 1
    /\ loginCalls = <<>>
    /\ logoutCalls = <<>>
    /\ loggedIn = {}
    /\ repositoryName = <<>>
    /\ runningServices = {}
    /\ forceUpdate = FALSE
    /\ pending = <<>>
    /\ postServices = {}
    /\ forced = {}
    /\ updateFailed = {}
    /\ walked = <<>>
    /\ sopsFilePaths = <<>>
    /\ sopsIdx = 1
    /\ decryptCalls = <<>>
    /\ clonedTo = <<>>
    /\ deployCalls = <<>>
    /\ failedAt = "none"
    /\ logoutFailed = {}
    /\ earlier = <<>>
    /\ steps = <<>>
    /\ rootPaths = <<>>

InitRoots ==
    /\ FixedRequest
    /\ IdleConc
    /\ IdleFs
    /\ IdleAuth
    /\ Registry = <<>>
    /\ pc = "roots"
    /\ filePaths \in SeqsUpTo(FilePathInputs, MaxFiles)

\* composeRootFolderPaths := findRootPaths(composeFilePaths)
FindRoots ==
    /\ pc = "roots"
    /\ rootPaths' = findRootPaths(filePaths)
    /\ pc' = "rootsDone"
    /\ UNCHANGED <<request, result, registryState, repositoryName, ws,
                   swarmState, sopsState, steps, filePaths, callState,
                   failedAt, logoutFailed, earlier, concState, fsState, authState>>

NextRoots == FindRoots

SpecRoots == InitRoots /\ [][NextRoots]_vars

----------------------------------------------------------------------------
(* dockerLogin and dockerLogout applied to bounded credential lists        *)

InitRegistry ==
    /\ FixedRequest
    /\ IdleConc
    /\ IdleFs
    /\ IdleAuth
    /\ Registry \in SeqsUpTo(RegistryInputsFull, MaxRegistries)
    /\ pc = "login"
    /\ filePaths = <<>>

\* dockerLogout(registries) is called once dockerLogin has returned.
CallLogout ==
    /\ pc = "checkURL"
    /\ pc' = "logout"
    /\ UNCHANGED <<request, result, registryState, repositoryName, ws,
                   swarmState, sopsState, steps, rootsState, callState,
                   failedAt, logoutFailed, earlier, concState, fsState, authState>>

NextRegistry ==
    \/ DockerLoginIter
    \/ DockerLoginReturn
    \/ CallLogout
    \/ DockerLogoutIter
    \/ DockerLogoutReturn

SpecRegistry == InitRegistry /\ [][NextRegistry]_vars

----------------------------------------------------------------------------
(* sopsDecrypt and the deploy call of DeployCommand.Run (deploy.go) on     *)
(* bounded compose path lists and checkouts with unreadable directories    *)

RelInputs == {RelTop, RelSub, RelMissing}

\* The state of DeployCommand.Run of deploy.go after a successful clone.
InitSops ==
    /\ cmd = "DeployCommand"
    /\ build = "deploy.go"
    /\ GitRepository = UrlWithSlash
    /\ Keep = FALSE
    /\ ForceRecreateStack = FALSE
    /\ Prune = FALSE
    /\ Registry = <<>>
    /\ repoSecrets \in 0..MaxSecrets
    /\ Destination \in DestinationInputs
    /\ ProjectName \in ProjectNameInputs
    /\ ComposeRelativeFilePaths \in SeqsUpTo(RelInputs, MaxComposeFiles)
    /\ repositoryName = RepositoryNameOf(GitRepository)
    /\ unreadable \in SUBSET { e.path : e \in { d \in RepoTree(clonePath, 0) :
                                                  d.isDir } }
    /\ ws0 = NoDir
    /\ ws = NewCheckout
    /\ pc = "sops"
    /\ result = "none"
    /\ deferred = TRUE
    /\ loginIdx = 1
    /\ logoutIdx = 1
    /\ loginCalls = <<>>
    /\ logoutCalls = <<>>
    /\ loggedIn = {}
    /\ runningServices = {}
    /\ forceUpdate = FALSE
    /\ pending = <<>>
    /\ postServices = {}
    /\ forced = {}
    /\ updateFailed = {}
    /\ walked = <<>>
    /\ sopsFilePaths = <<>>
    /\ sopsIdx = 1
    /\ decryptCalls = <<>>
    /\ clonedTo = <<clonePath>>
    /\ deployCalls = <<>>
    /\ failedAt = "none"
    /\ logoutFailed = {}
    /\ IdleConc
    /\ IdleFs
    /\ IdleAuth
    /\ earlier = <<>>
    /\ steps = <<"mkdir", "clone">>
    /\ filePaths = <<>>
    /\ rootPaths = <<>>

NextSops ==
    \/ SopsWalk
    \/ SopsDecryptIter
    \/ SopsReturn
    \/ DeployEngine
    \/ DockerLogoutReturn

SpecSops == InitSops /\ [][NextSops]_vars

----------------------------------------------------------------------------
(* The working directory of two requests handled one after the other       *)

\* "g/r" (repository r on another host) and "h/q.git" (another repository)
UrlOtherHost == <<103, 47, 114>>
UrlOtherRepo == <<104, 47, 113, 46, 103, 105, 116>>
PathUrlInputs == {UrlWithSlash, UrlOtherHost, UrlOtherRepo}
\* "/d", "/e" and "p", "q"
PathDestinationInputs == {<<47, 100>>, <<47, 101>>}
PathProjectInputs == {<<112>>, <<113>>}

\* The fields of a request that the path computation can see.
RequestFields ==
    /\ cmd \in DeployCmds \cup UndeployCmds
    /\ build = (IF cmd \in DeployCmds THEN "deploy.go" ELSE "undeploy.go")
    /\ GitRepository \in PathUrlInputs
    /\ Keep \in BOOLEAN
    /\ Registry \in (IF cmd \in DeployCmds THEN {<<>>, <<RegThree>>}
                     ELSE {<<>>})
    /\ Destination \in PathDestinationInputs
    /\ ProjectName \in PathProjectInputs

InitPaths ==
    /\ RequestFields
    /\ ForceRecreateStack = FALSE
    /\ Prune = FALSE
    /\ repoSecrets = 0
    /\ ComposeRelativeFilePaths \in ComposeInputs
    /\ unreadable = {}
    /\ ws0 = NoDir
    /\ ws = ws0
    /\ IdleRun
    /\ IdleConc
    /\ IdleFs
    /\ IdleAuth
    /\ filePaths = <<>>
    /\ rootPaths = <<>>

\* The repository name and the two paths of Run (deploy.go lines 47-62,
\* undeploy.go lines 28 and 73).
ResolvePaths ==
    /\ pc = "start"
    /\ pc' = "resolved"
    /\ repositoryName' = IF cmd \in DeployCmds
                         THEN RepositoryNameOf(GitRepository)
                         ELSE repositoryName
    /\ UNCHANGED <<request, result, registryState, ws, swarmState, sopsState,
                   steps, rootsState, callState, failedAt, logoutFailed,
                   earlier, concState, fsState, authState>>

\* The program is started again with another request.
NextRequest ==
    /\ pc = "resolved"
    /\ earlier = <<>>
    /\ earlier' = <<[cmd |-> cmd, url |-> GitRepository, keep |-> Keep,
                     registry |-> Registry, dest |-> Destination,
                     proj |-> ProjectName, repo |-> repositoryName,
                     mount |-> mountPath, clone |-> clonePath]>>
    /\ cmd' \in DeployCmds \cup UndeployCmds
    /\ build' = (IF cmd' \in DeployCmds THEN "deploy.go" ELSE "undeploy.go")
    /\ GitRepository' \in PathUrlInputs
    /\ Keep' \in BOOLEAN
    /\ Registry' \in (IF cmd' \in DeployCmds THEN {<<>>, <<RegThree>>}
                      ELSE {<<>>})
    /\ Destination' \in PathDestinationInputs
    /\ ProjectName' \in PathProjectInputs
    /\ pc' = "start"
    /\ repositoryName' = <<>>
    /\ UNCHANGED <<ForceRecreateStack, Prune, repoSecrets,
                   ComposeRelativeFilePaths,
                   unreadable, ws0, result, registryState, ws, swarmState,
                   sopsState, steps, rootsState, callState, failedAt,
                   logoutFailed, concState, fsState, authState>>

NextPaths ==
    \/ ResolvePaths
    \/ NextRequest

SpecPaths == InitPaths /\ [][NextPaths]_vars

-----------------------------------------------------------------------------
(* Two invocations of DeployCommand.Run for the same project, keep=false    *)

\* An invocation counts as finished once its clone is in place.
InFlightUntilClone(pcv) == pcv \in {"prep", "mkdir", "clone"}

\* An invocation is running from the entry of Run until Run returns.
InFlight(pcv) == pcv \notin {"start", "done"}

\* The invocation has cloned and its deploy-engine call has not returned.
HoldsClone(pcv) == pcv \in {"sops", "deploy"}

\* The checkout invocation p leaves in the workspace.
CheckoutOf(p) == [exists |-> TRUE, repo |-> p, plain |-> {}]

\* Invocation q writes newWs to the shared workspace; no lock is taken, so
\* the write happens whatever the other invocation is doing.
Touch(q, newWs) ==
    /\ ws' = newWs
    /\ disturbed' = disturbed \cup
           { p \in Invocations \ {q} : HoldsClone(pcs[p]) /\ newWs # ws }

ConcStep(p, to) == pcs' = [pcs EXCEPT ![p] = to]

ConcFrame ==
    UNCHANGED <<request, pc, result, registryState, repositoryName,
                swarmState, sopsState, steps, rootsState, callState,
                failedAt, logoutFailed, earlier, mode, fsState, authState>>

InitConcurrent ==
    /\ FixedRequest
    /\ Registry = <<>>
    /\ pc = "concurrent"
    /\ filePaths = <<>>
    \* the caller starts one invocation only after the other has returned,
    \* or starts them at any time
    /\ mode \in {"serialized", "concurrent"}
    /\ pcs = [p \in Invocations |-> "start"]
    /\ disturbed = {}
    /\ IdleFs
    /\ IdleAuth

\* The caller starts invocation p.
ConcBegin(p) ==
    /\ pcs[p] = "start"
    /\ mode = "serialized" =>
           \A q \in Invocations \ {p} : ~InFlight(pcs[q])
    /\ ConcStep(p, "prep")
    /\ UNCHANGED <<ws, disturbed>>
    /\ ConcFrame

\* os.Stat(mountPath); os.RemoveAll(mountPath) when it exists
ConcPrep(p) ==
    /\ pcs[p] = "prep"
    /\ IF ws.exists
       THEN \/ Touch(p, NoDir) /\ ConcStep(p, "mkdir")
            \/ ConcStep(p, "done") /\ UNCHANGED <<ws, disturbed>>
       ELSE ConcStep(p, "mkdir") /\ UNCHANGED <<ws, disturbed>>
    /\ ConcFrame

\* os.MkdirAll(mountPath, 0755)
ConcMkdirAll(p) ==
    /\ pcs[p] = "mkdir"
    /\ \/ Touch(p, [ws EXCEPT !.exists = TRUE]) /\ ConcStep(p, "clone")
       \/ ConcStep(p, "done") /\ UNCHANGED <<ws, disturbed>>
    /\ ConcFrame

\* git.PlainCloneContext into clonePath
ConcClone(p) ==
    /\ pcs[p] = "clone"
    /\ \/ Touch(p, CheckoutOf(p)) /\ ConcStep(p, "sops")
       \/ ConcStep(p, "done") /\ UNCHANGED <<ws, disturbed>>
    /\ ConcFrame

\* sopsDecrypt(clonePath) on a repository without encrypted files
ConcSops(p) ==
    /\ pcs[p] = "sops"
    /\ ConcStep(p, "deploy")
    /\ UNCHANGED <<ws, disturbed>>
    /\ ConcFrame

\* deployer.Deploy(...) returns, and Run with it
ConcDeploy(p) ==
    /\ pcs[p] = "deploy"
    /\ ConcStep(p, "done")
    /\ UNCHANGED <<ws, disturbed>>
    /\ ConcFrame

NextConcurrent ==
    \E p \in Invocations :
        \/ ConcBegin(p)
        \/ ConcPrep(p)
        \/ ConcMkdirAll(p)
        \/ ConcClone(p)
        \/ ConcSops(p)
        \/ ConcDeploy(p)

SpecConcurrent == InitConcurrent /\ [][NextConcurrent]_vars

-----------------------------------------------------------------------------
(* The workspace step of a fresh deploy on a disk that holds the            *)
(* workspaces of several projects                                           *)

\* The projects that have been deployed under the destination before:
\* "p", "o" and "q".
DeployedNames == {<<112>>, <<111>>, <<113>>}

\* cmd.ProjectName as given on the command line; the program does not
\* validate it: "p", "", ".." and "p/../o".
FrameProjectInputs ==
    {<<112>>, <<>>, StrDotDot, <<112, 47, 46, 46, 47, 111>>}

\* the directory path and every directory above it
RECURSIVE PathAndParents(_)
PathAndParents(path) ==
    IF Dir(path) = path THEN {path}
    ELSE {path} \cup PathAndParents(Dir(path))

\* os.RemoveAll(path): path and everything below it is gone
RemoveAll(fs, path) ==
    { d \in fs : d # path /\ ~HasPrefix(d, path \o StrSlash) }

\* os.MkdirAll(path, 0755): path and its missing parents are created
MkdirAllDirs(fs, path) == fs \cup PathAndParents(path)

\* The workspace of an earlier deploy of project name, with its clone.
WorkspaceOf(dest, name, repo) ==
    PathAndParents(Join(<<makeWorkingDir(dest, name), repo>>))

InitFrame ==
    /\ cmd = "DeployCommand"
    /\ build = "deploy.go"
    /\ GitRepository = UrlWithSlash
    /\ Keep = FALSE
    /\ ForceRecreateStack = FALSE
    /\ Prune = FALSE
    /\ Registry = <<>>
    /\ repoSecrets = 0
    /\ Destination \in DestinationInputs
    /\ ProjectName \in FrameProjectInputs
    /\ ComposeRelativeFilePaths \in ComposeInputs
    /\ unreadable = {}
    /\ ws0 = NoDir
    /\ ws = ws0
    /\ pc = "prep"
    /\ result = "none"
    /\ deferred = FALSE
    /\ loginIdx = 1
    /\ logoutIdx = 1
    /\ loginCalls = <<>>
    /\ logoutCalls = <<>>
    /\ loggedIn = {}
    /\ repositoryName = RepositoryNameOf(GitRepository)
    /\ runningServices = {}
    /\ forceUpdate = FALSE
    /\ pending = <<>>
    /\ postServices = {}
    /\ forced = {}
    /\ updateFailed = {}
    /\ walked = <<>>
    /\ sopsFilePaths = <<>>
    /\ sopsIdx = 1
    /\ decryptCalls = <<>>
    /\ clonedTo = <<>>
    /\ deployCalls = <<>>
    /\ failedAt = "none"
    /\ logoutFailed = {}
    /\ earlier = <<>>
    /\ steps = <<>>
    /\ filePaths = <<>>
    /\ rootPaths = <<>>
    /\ IdleConc
    /\ IdleAuth
    /\ \E deployed \in SUBSET DeployedNames :
           dirs0 = UNION { WorkspaceOf(Destination, n, repositoryName) :
                           n \in deployed }
    /\ dirs = dirs0

FrameRest ==
    UNCHANGED <<request, result, registryState, repositoryName, ws,
                swarmState, sopsState, steps, rootsState, callState,
                failedAt, logoutFailed, earlier, concState, dirs0,
                authState>>

\* _, err := os.Stat(mountPath); if err == nil { os.RemoveAll(mountPath) }
FramePrep ==
    /\ pc = "prep"
    /\ IF mountPath \in dirs
       THEN \/ dirs' = RemoveAll(dirs, mountPath) /\ pc' = "mkdir"
            \/ dirs' = dirs /\ pc' = "failed"
       ELSE dirs' = dirs /\ pc' = "mkdir"
    /\ FrameRest

\* os.MkdirAll(mountPath, 0755)
FrameMkdirAll ==
    /\ pc = "mkdir"
    /\ \/ dirs' = MkdirAllDirs(dirs, mountPath) /\ pc' = "clone"
       \/ dirs' = dirs /\ pc' = "failed"
    /\ FrameRest

\* git.PlainCloneContext into clonePath
FrameClone ==
    /\ pc = "clone"
    /\ \/ dirs' = MkdirAllDirs(dirs, clonePath) /\ pc' = "cloned"
       \/ dirs' = dirs /\ pc' = "failed"
    /\ FrameRest

NextFrame ==
    \/ FramePrep
    \/ FrameMkdirAll
    \/ FrameClone

SpecFrame == InitFrame /\ [][NextFrame]_vars

-----------------------------------------------------------------------------
(* getAuth                                                                  *)

StrToken == <<116, 111, 107, 101, 110>>

\* &http.BasicAuth{Username: username, Password: password}
BasicAuth(username, password) ==
    <<[Username |-> username, Password |-> password]>>

\* getAuth that decides on the username whether there are credentials.
getAuthByUsername(b, username, password) ==
    IF username # <<>> THEN BasicAuth(username, password) ELSE NoAuth

\* getAuth(username, password) of the build b
getAuth(b, username, password) ==
    IF b = "deploy.go"
    THEN IF password # <<>>
         THEN BasicAuth(IF username = <<>> THEN StrToken ELSE username,
                        password)
         ELSE NoAuth
    ELSE IF password = <<>>
         THEN NoAuth
         ELSE BasicAuth(IF username = <<>> THEN StrToken ELSE username,
                        password)

\* cmd.User and cmd.Password as given on the command line: strings of
\* 'u' and 'x', and "token"
CredentialInputs == SeqsUpTo({117, 120}, MaxCredLen) \cup {StrToken}

InitAuth ==
    /\ cmd = "DeployCommand"
    /\ build \in Builds
    /\ GitRepository = UrlWithSlash
    /\ Keep = FALSE
    /\ ForceRecreateStack = FALSE
    /\ Prune = FALSE
    /\ Registry = <<>>
    /\ repoSecrets = 0
    /\ Destination \in DestinationInputs
    /\ ProjectName \in ProjectNameInputs
    /\ ComposeRelativeFilePaths \in ComposeInputs
    /\ unreadable = {}
    /\ ws0 = NoDir
    /\ ws = ws0
    /\ pc = "auth"
    /\ result = "none"
    /\ deferred = FALSE
    /\ loginIdx = 1
    /\ logoutIdx = 1
    /\ loginCalls = <<>>
    /\ logoutCalls = <<>>
    /\ loggedIn = {}
    /\ repositoryName = RepositoryNameOf(GitRepository)
    /\ runningServices = {}
    /\ forceUpdate = FALSE
    /\ pending = <<>>
    /\ postServices = {}
    /\ forced = {}
    /\ updateFailed = {}
    /\ walked = <<>>
    /\ sopsFilePaths = <<>>
    /\ sopsIdx = 1
    /\ decryptCalls = <<>>
    /\ clonedTo = <<>>
    /\ deployCalls = <<>>
    /\ failedAt = "none"
    /\ logoutFailed = {}
    /\ earlier = <<>>
    /\ steps = <<>>
    /\ filePaths = <<>>
    /\ rootPaths = <<>>
    /\ IdleConc
    /\ IdleFs
    /\ User \in CredentialInputs
    /\ Password \in CredentialInputs
    /\ auth = NoAuth

\* Auth: getAuth(cmd.User, cmd.Password) in the clone options
GetAuth ==
    /\ pc = "auth"
    /\ auth' = getAuth(build, User, Password)
    /\ pc' = "authDone"
    /\ UNCHANGED <<request, result, registryState, repositoryName, ws,
                   swarmState, sopsState, steps, rootsState, callState,
                   failedAt, logoutFailed, earlier, concState, fsState,
                   User, Password>>

NextAuth == GetAuth

SpecAuth == InitAuth /\ [][NextAuth]_vars

----------------------------------------------------------------------------
(* Vocabulary of the properties                                            *)

Range(f) == { f[i] : i \in DOMAIN f }

\* number of ':' separators in a credential string
ColonCount(str) == Cardinality({ i \in 1..Len(str) : str[i] = 58 })
WellFormed(registry) == ColonCount(registry) = 2

\* the indices 1..n of well-formed credentials, in list order
WellFormedUpTo(n) ==
    SelectSeq([i \in 1..n |-> i], LAMBDA i : WellFormed(Registry[i]))

\* the directory names of an absolute path
Segments(p) == SelectSeq(Split(p, StrSlash), LAMBDA c : c # <<>>)

\* d lies below r, by whole path segments
IsPathDescendant(d, r) ==
    /\ Len(Segments(r)) < Len(Segments(d))
    /\ SubSeq(Segments(d), 1, Len(Segments(r))) = Segments(r)

Covers(r, d) == r = d \/ IsPathDescendant(d, r)

\* the steps of a run are in the order given by rank (unranked steps are
\* not constrained)
InOrder(rank) ==
    \A i, j \in DOMAIN steps :
        (i < j /\ steps[i] \in DOMAIN rank /\ steps[j] \in DOMAIN rank)
            => rank[steps[i]] <= rank[steps[j]]

\* Order of the spec: workspace, clone, secrets, login, deploy, reconcile,
\* logout.
SpecRank ==
    [s \in {"remove", "mkdir", "clone", "sops", "login", "deploy",
            "reconcile", "logout"} |->
        CASE s = "remove" -> 1
          [] s = "mkdir" -> 2
          [] s = "clone" -> 3
          [] s = "sops" -> 4
          [] s = "login" -> 5
          [] s = "deploy" -> 6
          [] s = "reconcile" -> 7
          [] s = "logout" -> 8]

----------------------------------------------------------------------------
(* Properties                                                              *)

\* C1: when a deploy command has returned, on whatever path, a registry
\* logout was attempted for every well-formed credential of the request.
\* Fails for DeployCommand.Run of part_001, which never calls dockerLogout.
C1_LogoutOnEveryExit ==
    (cmd \in DeployCmds /\ pc = "done") =>
        \A i \in 1..Len(Registry) :
            WellFormed(Registry[i]) => i \in Range(logoutCalls)

\* C2: in clustered mode forceUpdate is true exactly when forceRecreate is
\* requested and the pre-deploy running-service set is non-empty.
\* Fails for deploy.go, which ignores the forceRecreate flag.
C2_ForceUpdateIff ==
    (cmd = "SwarmDeployCommand" /\ "query" \in Range(steps)) =>
        (forceUpdate <=> (ForceRecreateStack /\ runningServices # {}))

\* C3: in clustered mode the services that received a forced update are
\* exactly pre-set \cap post-set when forceUpdate is true and the deploy
\* call and the post-deploy query both succeeded, and none otherwise; a
\* service outside the pre-set is never forced, and a failed update neither
\* stops the loop nor changes the result.  (With forceUpdate true, Run
\* returns nil exactly when the deploy call and the post-deploy query both
\* succeeded.)
C3_ForcedExactlyIntersection ==
    cmd = "SwarmDeployCommand" =>
        /\ forced \subseteq runningServices \cap postServices
        /\ pc = "done" =>
              forced = IF forceUpdate /\ result = ErrNil
                       THEN runningServices \cap postServices
                       ELSE {}
        /\ (pc = "done" /\ updateFailed # {}) => result = ErrNil

C3_Witness ==
    /\ cmd = "SwarmDeployCommand"
    /\ pc = "done"
    /\ result = ErrNil
    /\ updateFailed # {}
    /\ forced \ updateFailed # {}

\* C4: a deploy run with keep=true never removes or creates the workspace
\* directory and never clones; until the secret-resolution step starts the
\* workspace is exactly as it was when the run started.
C4_KeepLeavesWorkspace ==
    (cmd \in DeployCmds /\ Keep) =>
        /\ Range(steps) \cap {"remove", "mkdir", "clone"} = {}
        /\ ("sops" \notin Range(steps) => ws = ws0)
        /\ ws.exists = ws0.exists
        /\ ws.repo = ws0.repo

C4_Witness ==
    /\ cmd \in DeployCmds
    /\ Keep
    /\ ws0 = OldCheckout
    /\ "deploy" \in Range(steps)
    /\ pc = "done"

\* C5: the roots returned by findRootPaths cover the input: every input
\* file's parent directory equals, or lies below (by whole path segments),
\* some returned root.  Fails for sibling directories where one name is a
\* string prefix of the other.
C5_RootsCoverInputs ==
    pc = "rootsDone" =>
        \A i \in 1..Len(filePaths) :
            \E j \in 1..Len(rootPaths) :
                Covers(rootPaths[j], Dir(filePaths[i]))

\* C6: findRootPaths never returns two entries where one equals or lies
\* below the other.
C6_RootsNotNested ==
    pc = "rootsDone" =>
        \A i, j \in 1..Len(rootPaths) :
            i # j => ~Covers(rootPaths[i], rootPaths[j])

\* "/a/x/f", "/a/x/y/f", "/b/f" in some order yield "/a/x", "/b"
C6_Witness ==
    /\ pc = "rootsDone"
    /\ Range(filePaths) = { PathOf(<<SegA, SegX>>), PathOf(<<SegA, SegX, SegY>>),
                            PathOf(<<SegB>>) }
    /\ Len(rootPaths) = 2
    /\ \E i \in 1..Len(filePaths) :
          IsPathDescendant(Dir(filePaths[i]), rootPaths[1])

\* C7: every value returned by a deploy or undeploy command is nil or the
\* generic "stack deployment failure" error.  Fails for
\* SwarmUndeployCommand.Run, which returns the stderr error of "stack rm".
C7_OnlyGenericError ==
    result \in {"none", ErrNil, ErrDeployComposeFailure}

\* C8: the steps of a deploy run happen in the order workspace
\* preparation, clone, secret resolution, registry login, deploy-engine
\* call, reconciliation, registry logout.
C8_SpecStepOrder ==
    cmd \in DeployCmds => InOrder(SpecRank)

\* C9: in both undeploy commands the workspace is deleted only after the
\* stack removal succeeded and only when keep is false, and a failed
\* deletion leaves the result at success.
C9_UndeployCleanup ==
    cmd \in UndeployCmds =>
        /\ "cleanup" \in Range(steps) =>
              /\ ~Keep
              /\ steps = <<"stackrm", "cleanup">>
              /\ result = ErrNil
        /\ "cleanup" \notin Range(steps) => ws = ws0
        /\ Keep => ws = ws0
        /\ (pc = "done" /\ result # ErrNil) => ws = ws0

C9_Witness ==
    /\ cmd \in UndeployCmds
    /\ pc = "done"
    /\ "cleanup" \in Range(steps)
    /\ ws.exists
    /\ result = ErrNil

\* C10: dockerLogin and dockerLogout run the registry tool exactly once for
\* each entry with exactly two ':' separators, in list order, and not at all
\* for any other entry; no entry stops the loop.
C10_RegistryToolCalls ==
    /\ loginCalls = WellFormedUpTo(loginIdx - 1)
    /\ logoutCalls = WellFormedUpTo(logoutIdx - 1)
    /\ (HasLogin(build, cmd) /\ pc \notin {"start", "login"})
          => loginIdx = Len(Registry) + 1
    /\ (HasLogin(build, cmd) /\ pc = "done")
          => logoutIdx = Len(Registry) + 1

C10_Witness ==
    /\ pc = "done"
    /\ Len(Registry) = 2
    /\ ~WellFormed(Registry[1])
    /\ WellFormed(Registry[2])
    /\ loginCalls = <<2>>
    /\ logoutCalls = <<2>>

\* C11: a failed "docker login" never makes a deploy run return: Run has no
\* result while it is in dockerLogin, every error result comes from the
\* failure of a later step, and a run in which no later step failed has
\* called the deploy engine and returns nil whatever the logins did.
C11_LoginFailuresNotFatal ==
    cmd \in DeployCmds =>
        /\ pc = "login" => result = "none"
        /\ failedAt # "login"
        /\ (result \notin {"none", ErrNil}) <=> (failedAt # "none")
        /\ (pc \in {"logout", "done"} /\ failedAt = "none") =>
              /\ result = ErrNil
              /\ "deploy" \in Range(steps)

\* Every login of the run failed, the deploy engine was called and Run is
\* returning nil.
C11_Witness ==
    /\ HasLogin(build, cmd)
    /\ pc = "logout"
    /\ logoutIdx = 1
    /\ Len(loginCalls) = 2
    /\ loggedIn = {}
    /\ result = ErrNil
    /\ "clone" \in Range(steps)
    /\ "deploy" \in Range(steps)

\* C12 as stated: once a deploy run has returned, no server is left logged
\* in, whether or not a logout command failed.
C12_NothingLeftLoggedIn ==
    (cmd \in DeployCmds /\ pc = "done") => loggedIn = {}

\* C12: once a deploy run has returned, a server is still logged in only if
\* a "docker logout" for that server was run and failed; every credential
\* whose login was attempted had its logout attempted.
C12_LeftLoggedInOnlyByFailedLogout ==
    (cmd \in DeployCmds /\ pc = "done") =>
        /\ \A server \in loggedIn :
              \E i \in logoutFailed : ServerOf(Registry[i]) = server
        /\ Range(loginCalls) \subseteq Range(logoutCalls)

\* A run has returned after a successful login whose logout failed.
C12_Witness ==
    /\ cmd \in DeployCmds
    /\ pc = "done"
    /\ loggedIn # {}
    /\ logoutFailed # {}
    /\ Len(logoutCalls) = Len(loginCalls)

\* s contains sub
Contains(s, sub) ==
    \E i \in 1..(Len(s) - Len(sub) + 1) : SubSeq(s, i, i + Len(sub) - 1) = sub

\* name with its marker segment taken out: "app" marker "yml" -> "app.yml"
WithoutMarker(name, marker) ==
    LET i == CHOOSE k \in 1..Len(name) :
                 SubSeq(name, k, k + Len(marker) - 1) = marker
    IN  SubSeq(name, 1, i - 1) \o StrDot
        \o SubSeq(name, i + Len(marker), Len(name))

\* ".secret."
StrSecretMarker == <<46, 115, 101, 99, 114, 101, 116, 46>>

\* Every decrypt-tool invocation is for a regular file of the checkout
\* whose name carries the marker, runs in that file's folder and writes the
\* name without the marker.
DecryptsOnlyMarked(marker) ==
    /\ Len(decryptCalls) <= Len(sopsFilePaths)
    /\ \A i \in 1..Len(decryptCalls) :
          LET file == sopsFilePaths[i]
              cut  == LastIndex(file, StrSlash)
              name == SubSeq(file, cut + 2, Len(file))
          IN  /\ Entry(file, FALSE) \in Tree
              /\ Contains(name, marker)
              /\ decryptCalls[i].dir = SubSeq(file, 1, cut)
              /\ decryptCalls[i].input = name
              /\ decryptCalls[i].output = WithoutMarker(name, marker)

\* C13: the decrypt tool is invoked only for regular files named
\* *.secret.*, in the file's folder, writing the name without ".secret.".
C13_SecretMarkerOnly == DecryptsOnlyMarked(StrSecretMarker)

\* destination/stacks/<projectName>/<repositoryName>, the repository name
\* being the last segment of the URL without ".git"
ExpectedClonePath ==
    LET segs == Split(GitRepository, StrSlash)
        last == segs[Len(segs)]
        name == IF HasSuffix(last, StrDotGit)
                THEN SubSeq(last, 1, Len(last) - Len(StrDotGit)) ELSE last
    IN  Destination \o StrSlash \o StrStacks \o StrSlash \o ProjectName
        \o StrSlash \o name

\* C14: a single-engine deploy with keep=false in which no step failed and
\* the repository holds no secret file has removed a previous workspace,
\* cloned once into destination/stacks/<projectName>/<repositoryName>, never
\* called the decrypt tool, called the deploy engine once with the clone
\* path joined with each relative path in request order, and returns nil.
C14_FreshDeploy ==
    (/\ cmd = "DeployCommand"
     /\ pc = "done"
     /\ ~Keep
     /\ failedAt = "none"
     /\ repoSecrets = 0) =>
        /\ ws0.exists => "remove" \in Range(steps)
        /\ ws.repo = "new"
        /\ clonedTo = <<ExpectedClonePath>>
        /\ decryptCalls = <<>>
        /\ Len(deployCalls) = 1
        /\ deployCalls[1].paths =
              [i \in 1..Len(ComposeRelativeFilePaths) |->
                  ExpectedClonePath \o StrSlash \o ComposeRelativeFilePaths[i]]
        /\ deployCalls[1].workingDir = ExpectedClonePath
        /\ result = ErrNil

\* A keep=false single-engine deploy of deploy.go over an old workspace has
\* returned, nothing failed, the repository has no secret file and two
\* compose files were requested.
C14_Witness ==
    /\ cmd = "DeployCommand"
    /\ build = "deploy.go"
    /\ pc = "done"
    /\ ~Keep
    /\ failedAt = "none"
    /\ repoSecrets = 0
    /\ ws0 = OldCheckout
    /\ Len(ComposeRelativeFilePaths) = 2
    /\ "sops" \in Range(steps)
    /\ Len(deployCalls) = 1

\* destination/stacks/<projectName>
ExpectedMountPath ==
    Destination \o StrSlash \o StrStacks \o StrSlash \o ProjectName

\* C15: two requests with the same destination and project name resolve to
\* the same mountPath, destination/stacks/<projectName>, whatever their
\* command, URL, keep flag and credentials are, and to the same clone path
\* when their URLs also give the same repository name; for a deploy command
\* that clone path is the mountPath followed by the repository name.
C15_SameWorkspace ==
    (/\ pc = "resolved"
     /\ earlier # <<>>
     /\ earlier[1].dest = Destination
     /\ earlier[1].proj = ProjectName) =>
        /\ earlier[1].mount = mountPath
        /\ mountPath = ExpectedMountPath
        /\ earlier[1].repo = repositoryName =>
              earlier[1].clone = clonePath
        /\ cmd \in DeployCmds => clonePath = ExpectedClonePath

\* A single-engine and a clustered deploy request for the same destination
\* and project that differ in URL, keep flag and credentials, with the same
\* repository name.
C15_Witness ==
    /\ pc = "resolved"
    /\ earlier # <<>>
    /\ earlier[1].dest = Destination
    /\ earlier[1].proj = ProjectName
    /\ earlier[1].cmd = "DeployCommand"
    /\ cmd = "SwarmDeployCommand"
    /\ earlier[1].url # GitRepository
    /\ earlier[1].keep # Keep
    /\ earlier[1].registry # Registry
    /\ earlier[1].repo = repositoryName
    /\ repositoryName # <<>>

\* C16: with an empty compose path list findRootPaths returns the empty
\* list and sopsDecrypt scans no path, invokes the decrypt tool for no file
\* and returns nil, so that Run goes on to the deploy call.
C16_EmptyListNoOp ==
    ComposeRelativeFilePaths = <<>> =>
        /\ findRootPaths(composeFilePaths) = <<>>
        /\ walked = <<>>
        /\ sopsFilePaths = <<>>
        /\ decryptCalls = <<>>
        /\ failedAt # "decrypt"
        /\ pc \notin {"sops", "decrypt"} =>
              (pc = "deploy" \/ "deploy" \in Range(steps))

\* sopsDecrypt has returned for an empty compose path list although the
\* checkout holds SOPS files.
C16_Witness ==
    /\ ComposeRelativeFilePaths = <<>>
    /\ repoSecrets > 0
    /\ "sops" \in Range(steps)
    /\ pc = "deploy"

\* the steps of Run that touch the workspace or the stack
LaterSteps(at) ==
    CASE at = "checkURL" -> {"query", "remove", "mkdir", "clone", "sops",
                             "deploy", "reconcile"}
      [] at = "prep" -> {"mkdir", "clone", "sops", "deploy", "reconcile"}
      [] at = "mkdir" -> {"clone", "sops", "deploy", "reconcile"}
      [] at = "clone" -> {"sops", "deploy", "reconcile"}
      [] at = "decrypt" -> {"deploy", "reconcile"}

\* C17: in both deploy commands, once the URL check, the workspace removal,
\* the workspace creation, the clone or a decryption has failed, Run returns
\* errDeployComposeFailure and performs none of the later steps (the
\* deferred logout aside): the deploy engine is never called, and after a
\* malformed URL the workspace is untouched and nothing is cloned.
C17_FatalStepStopsRun ==
    (cmd \in DeployCmds
     /\ failedAt \in {"checkURL", "prep", "mkdir", "clone", "decrypt"}) =>
        /\ pc \in {"logout", "done"}
        /\ result = ErrDeployComposeFailure
        /\ Range(steps) \cap LaterSteps(failedAt) = {}
        /\ deployCalls = <<>>
        /\ failedAt = "checkURL" => (ws = ws0 /\ clonedTo = <<>>)
        /\ failedAt \in {"prep", "mkdir"} => clonedTo = <<>>

\* The clone of a deploy run failed and Run has returned.
C17_Witness ==
    /\ cmd \in DeployCmds
    /\ failedAt = "clone"
    /\ pc = "done"
    /\ result = ErrDeployComposeFailure
    /\ steps[Len(steps)] \in {"clone", "logout"}

\* the plaintext files written by the successful decrypt calls
Plaintexts ==
    { decryptCalls[i].dir \o StrSlash \o decryptCalls[i].output :
        i \in { j \in 1..Len(decryptCalls) : decryptCalls[j].ok } }

\* C18: a failed decrypt call is the last one: sopsDecrypt returns the error
\* (Run returns errDeployComposeFailure without calling the deploy engine),
\* no later file of sopsFilePaths is handed to the tool, and the plaintext
\* files written before stay in place.
C18_FirstDecryptFailureEndsLoop ==
    /\ \A i \in 1..Len(decryptCalls) :
          ~decryptCalls[i].ok =>
              /\ i = Len(decryptCalls)
              /\ failedAt = "decrypt"
              /\ result = ErrDeployComposeFailure
              /\ pc \in {"logout", "done"}
              /\ deployCalls = <<>>
    /\ ws.plain = Plaintexts

\* The decryption of the second of two SOPS files failed; the plaintext of
\* the first one is still there.
C18_Witness ==
    /\ Len(sopsFilePaths) = 2
    /\ Len(decryptCalls) = 2
    /\ decryptCalls[1].ok
    /\ ~decryptCalls[2].ok
    /\ ws.plain = {clonePath \o StrSlash \o <<97, 46, 121>>}
    /\ pc = "done"

\* The SOPS files that a walk of the roots can reach: regular files named
\* *.sops.* below an existing root, with no unreadable directory between
\* the root and the file.
Discoverable ==
    LET roots == Range(findRootPaths(composeFilePaths))
        Reachable(file) ==
            \E root \in roots :
                /\ Entry(root, TRUE) \in Tree
                /\ Covers(root, Dir(file))
                /\ \A d \in unreadable :
                      ~(Covers(root, d) /\ Covers(d, Dir(file)))
    IN  { e.path : e \in { f \in Tree : /\ ~f.isDir
                                        /\ Contains(Base(f.path), StrSopsMarker)
                                        /\ Reachable(f.path) } }

\* C19: walk errors (missing root, unreadable directory) never make
\* sopsDecrypt fail and never end the scan: sopsFilePaths holds every SOPS
\* file reachable from a root, sopsDecrypt fails only when a decrypt call
\* failed, and otherwise every such file is decrypted and Run goes on to
\* the deploy call.
C19_WalkErrorsNotFatal ==
    /\ pc # "sops" =>
          /\ Range(sopsFilePaths) = Discoverable
          /\ Len(sopsFilePaths) = Cardinality(Discoverable)
    /\ failedAt = "decrypt" =>
          \E i \in 1..Len(decryptCalls) : ~decryptCalls[i].ok
    /\ (pc \notin {"sops", "decrypt"} /\ failedAt # "decrypt") =>
          /\ { decryptCalls[i].dir \o StrSlash \o decryptCalls[i].input :
                 i \in 1..Len(decryptCalls) } = Discoverable
          /\ pc = "deploy" \/ "deploy" \in Range(steps)

\* The directory k.sops.d could not be read (the callback got its path a
\* second time, with the error), yet both SOPS files, one of them met after
\* the error, were decrypted and the deploy call is next.
C19_Witness ==
    /\ clonePath \o StrSlash \o NameMarkedDir \in unreadable
    /\ Cardinality({ i \in 1..Len(walked) :
                       walked[i] = clonePath \o StrSlash \o NameMarkedDir }) = 2
    /\ Len(decryptCalls) = 2
    /\ pc = "deploy"

\* C20: in both undeploy commands a failed stack removal makes Run return
\* an error with the workspace as it was, whatever keep is, and the
\* workspace cleanup is run only after a successful removal.
C20_RemovalFailureLeavesWorkspace ==
    cmd \in UndeployCmds =>
        /\ failedAt = "remove" =>
              /\ pc = "done"
              /\ result \in CalleeErrors
              /\ ws = ws0
              /\ "cleanup" \notin Range(steps)
        /\ "cleanup" \in Range(steps) =>
              ("stackrm" \in Range(steps) /\ failedAt = "none")

\* The stack removal of an undeploy with keep=false failed over an existing
\* workspace.
C20_Witness ==
    /\ cmd \in UndeployCmds
    /\ failedAt = "remove"
    /\ ~Keep
    /\ ws0.exists
    /\ pc = "done"

\* C21: every single-engine deploy-engine call carries forceRecreate equal
\* to the request's forceRecreate flag and removeOrphans equal to its prune
\* flag, with the clone path as working directory and the project name.
C21_EngineFlagsFollowRequest ==
    cmd = "DeployCommand" =>
        \A i \in 1..Len(deployCalls) :
            /\ deployCalls[i].forceRecreate = ForceRecreateStack
            /\ deployCalls[i].removeOrphans = Prune
            /\ deployCalls[i].workingDir = clonePath
            /\ deployCalls[i].projectName = ProjectName

\* C22: an invocation's clone is modified by another invocation before its
\* deploy-engine call returns only when the caller runs the invocations
\* concurrently; serialized invocations never disturb each other.
C22_OnlyConcurrentRunsDisturb == disturbed # {} => mode = "concurrent"

\* Two concurrent keep=false deploys: one has removed the workspace the
\* other cloned, and the other has not yet decrypted or deployed.
C22_Witness ==
    /\ mode = "concurrent"
    /\ \E p \in Invocations :
           /\ p \in disturbed
           /\ pcs[p] = "sops"
           /\ ws = NoDir

\* The directories of fs that make up the workspace of project name.
WorkspaceDirs(fs, name) ==
    { d \in fs : Covers(makeWorkingDir(Destination, name), d) }

\* C23: a fresh deploy leaves the workspace directories of every other
\* project under the same destination as they were, whatever project name
\* the command was given (the empty name and names with ".." included).
C23_OtherWorkspacesUnchanged ==
    (cmd = "DeployCommand" /\ ~Keep) =>
        \A other \in DeployedNames \ {ProjectName} :
            WorkspaceDirs(dirs, other) = WorkspaceDirs(dirs0, other)

\* C24: getAuth returns no credentials exactly when the password is empty;
\* with a non-empty password it returns that password together with the
\* given username, or with the username "token" when none was given.
C24_GetAuth ==
    pc = "authDone" =>
        /\ auth = NoAuth <=> Password = <<>>
        /\ Password # <<>> =>
               /\ auth[1].Password = Password
               /\ User # <<>> => auth[1].Username = User
               /\ User = <<>> => auth[1].Username = StrToken

\* getAuth has been called with a password and no username and has put
\* the placeholder in.
C24_Witness ==
    /\ pc = "authDone"
    /\ User = <<>>
    /\ Password # <<>>
    /\ auth # NoAuth
    /\ auth[1].Username = StrToken

====
